---- MODULE Spec2Model ----
(***************************************************************************)
(* mrsc: "mpsc with requests" (src/src/lib.rs).                            *)
(*                                                                         *)
(* A Server owns the receiving end of one shared std::sync::mpsc queue of  *)
(* Requests plus one Sender of it; Channels are further clones of that     *)
(* Sender.  Channel::req creates a fresh mpsc channel for the reply, puts  *)
(* its Sender into the Request and its Receiver into the Response.         *)
(*                                                                         *)
(* An mpsc channel is the record [buf, senders, rxAlive]: the buffered     *)
(* messages, the number of live Sender handles, and whether the Receiver   *)
(* is alive.  Blocking calls are two steps (call, return); the return step *)
(* is enabled only when std's recv would wake up.                          *)
(***************************************************************************)
EXTENDS Integers, Sequences, FiniteSets, TLC

\* ---------------------------------------------------------------- bounds
MaxReqs == 2        \* number of Channel::req calls in a run
MaxChannels == 2    \* number of Channel handles ever created (pop / clone)
MaxPayload == 2     \* payloads are 1..MaxPayload
MaxReply == 2       \* reply values are 1..MaxReply
MaxConsumers == 2   \* threads that call the receive operations of the Server

Payloads == 1..MaxPayload
Replies == 1..MaxReply
ReqIds == 1..MaxReqs
ChannelIds == 1..MaxChannels
Consumers == 1..MaxConsumers
Owner == 1          \* the consumer when one thread owns the Server outright

NoVal == 0

VARIABLES
    server,     \* "alive" | "dropped": the Server value (its tx and rx)
    srvPc,      \* "idle" | "recv": a thread is inside Server::recv
    srvBy,      \* the consumer thread inside Server::recv, 0 if none
    channels,   \* Seq over "alive" | "dropped": every Channel handle created so far
    mainq,      \* the shared mpsc channel of Requests
    oneshot,    \* Seq of mpsc channels: the reply channel made by each req call
    held,       \* set of Request / EmptyRequest values currently owned by some thread
    resp,       \* ReqIds -> the Response of each req call and where its owner is
    calls,      \* history: the req calls made, in the order their send completed
    deq,        \* history: the Requests handed out by the Server's receive calls
    replyLog,   \* history: per req call, the reply call made on its Request or
                \* EmptyRequest (via), and whether the caller was inside recv then
    recvLog,    \* history: per req call, what the receive calls on its Response returned:
                \* res and op of the last one that returned a value or consumed the
                \* Response, the last value, and the number of values
    taken,      \* history: per req call, the payload Request::take returned
    handed      \* history: per req call, the consumer a receive call of the
                \* Server returned its Request to, 0 if none

vars == <<server, srvPc, srvBy, channels, mainq, oneshot, held, resp, calls, deq,
          replyLog, recvLog, taken, handed>>

\* ------------------------------------------------- std::sync::mpsc channel
\* mpsc::channel(): an empty channel with one Sender and its Receiver.
McChannel == [buf |-> <<>>, senders |-> 1, rxAlive |-> TRUE]

\* (mutant) a one-slot channel: a send replaces what is buffered.
McSendLossy(ch, v) ==
    IF ch.rxAlive
    THEN [res |-> "Ok", val |-> NoVal, ch |-> [ch EXCEPT !.buf = <<v>>]]
    ELSE [res |-> "SendError", val |-> v, ch |-> ch]

\* Sender::send: fails, handing the value back, iff the Receiver is gone.
McSend(ch, v) ==
    IF ch.rxAlive
    THEN [res |-> "Ok", val |-> NoVal, ch |-> [ch EXCEPT !.buf = Append(@, v)]]
    ELSE [res |-> "SendError", val |-> v, ch |-> ch]

\* (mutant) the newest buffered message instead of the oldest.
McTakeLifo(ch, none) ==
    IF ch.buf # <<>>
    THEN [res |-> "Ok", val |-> ch.buf[Len(ch.buf)],
          ch |-> [ch EXCEPT !.buf = SubSeq(@, 1, Len(@) - 1)]]
    ELSE IF ch.senders = 0
         THEN [res |-> "Disconnected", val |-> NoVal, ch |-> ch]
         ELSE [res |-> none, val |-> NoVal, ch |-> ch]

\* (mutant) the disconnect is reported before the buffer is drained.
McTakeDisconnectFirst(ch, none) ==
    IF ch.senders = 0
    THEN [res |-> "Disconnected", val |-> NoVal, ch |-> ch]
    ELSE IF ch.buf # <<>>
         THEN [res |-> "Ok", val |-> Head(ch.buf), ch |-> [ch EXCEPT !.buf = Tail(@)]]
         ELSE [res |-> none, val |-> NoVal, ch |-> ch]

\* The first buffered message, if any; otherwise `none` while a Sender is
\* alive and "Disconnected" once every Sender is gone.
McTake(ch, none) ==
    IF ch.buf # <<>>
    THEN [res |-> "Ok", val |-> Head(ch.buf), ch |-> [ch EXCEPT !.buf = Tail(@)]]
    ELSE IF ch.senders = 0
         THEN [res |-> "Disconnected", val |-> NoVal, ch |-> ch]
         ELSE [res |-> none, val |-> NoVal, ch |-> ch]

\* (mutant) recv gives up with the disconnect error instead of blocking.
McRecvSpurious(ch) == McTake(ch, "Disconnected")

\* (mutant) try_recv returns the first message and leaves it in the buffer.
McTryRecvPeek(ch) == [McTake(ch, "Empty") EXCEPT !.ch = ch]

\* (mutant) recv_timeout reports every wait without a value as a timeout.
McRecvTimeoutConflated(ch) ==
    IF McTake(ch, "Timeout").res = "Disconnected"
    THEN [McTake(ch, "Timeout") EXCEPT !.res = "Timeout"]
    ELSE McTake(ch, "Timeout")

\* Receiver::recv blocks, try_recv says Empty, recv_timeout says Timeout.
McRecv(ch) == McTake(ch, "Block")
McTryRecv(ch) == McTake(ch, "Empty")
McRecvTimeout(ch) == McTake(ch, "Timeout")

\* Drop of one Sender handle / of the Receiver (which discards the buffer).
McDropSender(ch) == [ch EXCEPT !.senders = @ - 1]
McDropReceiver(ch) == [ch EXCEPT !.rxAlive = FALSE, !.buf = <<>>]

\* ------------------------------------------------------------------ Init
Init ==
    /\ server = "alive"
    /\ srvPc = "idle"
    /\ srvBy = 0
    /\ channels = <<>>
    /\ mainq = McChannel
    /\ oneshot = <<>>
    /\ held = {}
    /\ resp = [k \in ReqIds |-> [st |-> "none", rx |-> 0]]
    /\ calls = <<>>
    /\ deq = <<>>
    /\ replyLog = [k \in ReqIds |-> [res |-> "none", val |-> NoVal, via |-> "none", waiting |-> FALSE]]
    /\ recvLog = [k \in ReqIds |-> [res |-> "none", op |-> "none", val |-> NoVal, n |-> 0]]
    /\ taken = [k \in ReqIds |-> NoVal]
    /\ handed = [k \in ReqIds |-> 0]

\* ---------------------------------------------------------------- Server
\* (mutant) pop gives the Server's own Sender away instead of a clone.
PopMoved ==
    /\ server = "alive"
    /\ srvPc = "idle"
    /\ Len(channels) < MaxChannels
    /\ channels' = Append(channels, "alive")
    /\ mainq' = [mainq EXCEPT !.senders = IF Len(channels) = 0 THEN @ ELSE @ + 1]
    /\ UNCHANGED <<server, srvPc, oneshot, held, resp, calls, deq,
                   replyLog, recvLog, taken, srvBy, handed>>

\* Server::pop: a Channel holding a clone of the Server's Sender.
Pop ==
    /\ server = "alive"
    /\ srvPc = "idle"
    /\ Len(channels) < MaxChannels
    /\ channels' = Append(channels, "alive")
    /\ mainq' = [mainq EXCEPT !.senders = @ + 1]
    /\ UNCHANGED <<server, srvPc, oneshot, held, resp, calls, deq,
                   replyLog, recvLog, taken, srvBy, handed>>

\* #[derive(Clone)] on Channel: one more clone of the same Sender.
CloneChannel(c) ==
    /\ c \in DOMAIN channels
    /\ channels[c] = "alive"
    /\ Len(channels) < MaxChannels
    /\ channels' = Append(channels, "alive")
    /\ mainq' = [mainq EXCEPT !.senders = @ + 1]
    /\ UNCHANGED <<server, srvPc, oneshot, held, resp, calls, deq,
                   replyLog, recvLog, taken, srvBy, handed>>

\* Drop of a Channel: its Sender goes.
DropChannel(c) ==
    /\ c \in DOMAIN channels
    /\ channels[c] = "alive"
    /\ channels' = [channels EXCEPT ![c] = "dropped"]
    /\ mainq' = McDropSender(mainq)
    /\ UNCHANGED <<server, srvPc, oneshot, held, resp, calls, deq,
                   replyLog, recvLog, taken, srvBy, handed>>

\* (mutant) the buffered Requests are leaked, their Senders never dropped.
DropSendersLeaked(chans, reqs) == chans

\* The Sender of every Request in `reqs` is dropped with it.
DropSendersOf(chans, reqs) ==
    [c \in DOMAIN chans |->
        IF \E q \in reqs : q.tx = c THEN McDropSender(chans[c]) ELSE chans[c]]

Range(s) == {s[i] : i \in DOMAIN s}

\* (mutant) the Requests already received die with the Server as well.
DropServerAll ==
    /\ server = "alive"
    /\ srvPc = "idle"
    /\ server' = "dropped"
    /\ mainq' = McDropReceiver(McDropSender(mainq))
    /\ oneshot' = DropSendersOf(oneshot, Range(mainq.buf) \cup held)
    /\ UNCHANGED <<srvPc, channels, held, resp, calls, deq,
                   replyLog, recvLog, taken, srvBy, handed>>

\* Drop of the Server: its Sender and its Receiver go, and with the Receiver
\* every Request still buffered, hence the reply Sender inside each.
DropServer ==
    /\ server = "alive"
    /\ srvPc = "idle"
    /\ server' = "dropped"
    /\ mainq' = McDropReceiver(McDropSender(mainq))
    /\ oneshot' = DropSendersOf(oneshot, Range(mainq.buf))
    /\ UNCHANGED <<srvPc, channels, held, resp, calls, deq,
                   replyLog, recvLog, taken, srvBy, handed>>

\* Request::get: the payload field.
Get(q) == q.payload

\* (mutant) every received Request replies on the reply channel of call 1.
ReceivedFirstTx(q) ==
    [id |-> q.id, tx |-> 1, payload |-> q.payload, kind |-> "Request"]

\* A Request as the handler owns it after a receive call returned it.
Received(q) ==
    [id |-> q.id, tx |-> q.tx, payload |-> q.payload, kind |-> "Request"]

\* (mutant) the Request is handed out and also left in the queue.
SrvDeliverKeep(r, w) ==
    /\ mainq' = mainq
    /\ IF r.res = "Ok"
       THEN /\ held' = held \cup {Received(r.val)}
            /\ deq' = Append(deq, [id |-> r.val.id, payload |-> Get(r.val)])
            /\ handed' = [handed EXCEPT ![r.val.id] = w]
       ELSE UNCHANGED <<held, deq, handed>>

\* The effect of a receive call of the Server, made by consumer w, that
\* returned result r.
SrvDeliver(r, w) ==
    /\ mainq' = r.ch
    /\ IF r.res = "Ok"
       THEN /\ held' = held \cup {Received(r.val)}
            /\ deq' = Append(deq, [id |-> r.val.id, payload |-> Get(r.val)])
            /\ handed' = [handed EXCEPT ![r.val.id] = w]
       ELSE UNCHANGED <<held, deq, handed>>

\* The Server is not Sync (its mpsc::Receiver is not): one thread owns it, or
\* several consumer threads reach it through a lock, one at a time.  Either
\* way a receive call starts only while no other is inside.

\* Server::recv, the call: consumer w blocks in rx.recv().
SrvRecvCall(w) ==
    /\ server = "alive"
    /\ srvPc = "idle"
    /\ srvPc' = "recv"
    /\ srvBy' = w
    /\ UNCHANGED <<server, channels, mainq, oneshot, held, resp, calls, deq,
                   replyLog, recvLog, taken, handed>>

\* Server::recv, the return.
SrvRecvReturn ==
    /\ srvPc = "recv"
    /\ McRecv(mainq).res # "Block"
    /\ SrvDeliver(McRecv(mainq), srvBy)
    /\ srvPc' = "idle"
    /\ srvBy' = 0
    /\ UNCHANGED <<server, channels, oneshot, resp, calls, replyLog, recvLog, taken>>

\* Server::try_recv.
SrvTryRecv(w) ==
    /\ server = "alive"
    /\ srvPc = "idle"
    /\ SrvDeliver(McTryRecv(mainq), w)
    /\ UNCHANGED <<server, srvPc, srvBy, channels, oneshot, resp, calls, replyLog,
                   recvLog, taken>>

\* Server::recv_timeout, at the moment it returns (a value, or the expiry).
SrvRecvTimeout(w) ==
    /\ server = "alive"
    /\ srvPc = "idle"
    /\ SrvDeliver(McRecvTimeout(mainq), w)
    /\ UNCHANGED <<server, srvPc, srvBy, channels, oneshot, resp, calls, replyLog,
                   recvLog, taken>>

\* --------------------------------------------------------------- Channel
\* (mutant) the reply channel of the previous call is used again.
ReplyChannelShared == IF Len(oneshot) = 0 THEN Len(oneshot) + 1 ELSE Len(oneshot)

\* The reply channel mpsc::channel() makes in req: a fresh one per call.
ReplyChannel == Len(oneshot) + 1

\* (mutant) the Request carries the call's number instead of the payload.
NewRequestNumbered(id, tx, payload) == [id |-> id, tx |-> tx, payload |-> id]

\* Request { tx, payload }
NewRequest(id, tx, payload) == [id |-> id, tx |-> tx, payload |-> payload]

\* (mutant) the error hands back a Request that lost its payload.
ReturnedEmpty(q) ==
    [id |-> q.id, tx |-> q.tx, payload |-> NoVal, kind |-> "Request"]

\* The Request a failed send hands back inside SendError.
Returned(q) ==
    [id |-> q.id, tx |-> q.tx, payload |-> q.payload, kind |-> "Request"]

\* (mutant) the Receiver of the reply channel outlives the failed req.
FailedReplyChannelLeaked == [McChannel EXCEPT !.rxAlive = TRUE]

\* The reply channel after a failed send: `?` returns early and the local rx
\* is dropped, the Sender lives on inside the Request handed back.
FailedReplyChannel == McDropReceiver(McChannel)

\* Channel::req(payload).  On a failed send `?` returns the error, and the
\* local rx is dropped; otherwise rx becomes the Response.
Req(c, p) ==
    /\ c \in DOMAIN channels
    /\ channels[c] = "alive"
    /\ Len(calls) < MaxReqs
    /\ LET id == Len(calls) + 1
           ch == ReplyChannel
           s == McSend(mainq, NewRequest(id, ch, p))
       IN /\ mainq' = s.ch
          /\ calls' = Append(calls, [payload |-> p, ok |-> s.res = "Ok"])
          /\ IF s.res = "Ok"
             THEN /\ oneshot' = Append(oneshot, McChannel)
                  /\ resp' = [resp EXCEPT ![id] = [st |-> "held", rx |-> ch]]
                  /\ held' = held
             ELSE /\ oneshot' = Append(oneshot, FailedReplyChannel)
                  /\ resp' = resp
                  /\ held' = held \cup {Returned(s.val)}
    /\ UNCHANGED <<server, srvPc, channels, deq, replyLog, recvLog, taken, srvBy, handed>>

\* ------------------------------------------------ Request / EmptyRequest
\* (mutant) the EmptyRequest gets the reply Sender of the first call.
TakeFirstTx(h) ==
    [empty |-> [id |-> h.id, tx |-> 1, payload |-> NoVal, kind |-> "EmptyRequest"],
     payload |-> h.payload]

\* Request::take: (EmptyRequest { tx: self.tx }, self.payload).
Take(h) ==
    [empty |-> [id |-> h.id, tx |-> h.tx, payload |-> NoVal, kind |-> "EmptyRequest"],
     payload |-> h.payload]

\* (mutant) take copies the capability: the Request stays with the handler.
RequestTakeCopy(h) ==
    /\ h \in held
    /\ h.kind = "Request"
    /\ held' = held \cup {Take(h).empty}
    /\ taken' = [taken EXCEPT ![h.id] = Take(h).payload]
    /\ UNCHANGED <<server, srvPc, channels, mainq, oneshot, resp, calls, deq, replyLog, recvLog, srvBy, handed>>

RequestTake(h) ==
    /\ h \in held
    /\ h.kind = "Request"
    /\ held' = (held \ {h}) \cup {Take(h).empty}
    /\ taken' = [taken EXCEPT ![h.id] = Take(h).payload]
    /\ UNCHANGED <<server, srvPc, channels, mainq, oneshot, resp, calls, deq, replyLog, recvLog, srvBy, handed>>

\* (mutant) the result of send is ignored and Ok(()) returned.
ReplyUnchecked(h, r) ==
    LET s == McSend(oneshot[h.tx], r)
    IN /\ oneshot' = [oneshot EXCEPT ![h.tx] = McDropSender(s.ch)]
       /\ held' = held \ {h}
       /\ replyLog' = [replyLog EXCEPT ![h.id] =
                          [res |-> "Ok", val |-> r, via |-> h.kind,
                           waiting |-> resp[h.id].st = "recv"]]

\* self.tx.send(response), after which self, and so its Sender, is gone.
Reply(h, r) ==
    LET s == McSend(oneshot[h.tx], r)
    IN /\ oneshot' = [oneshot EXCEPT ![h.tx] = McDropSender(s.ch)]
       /\ held' = held \ {h}
       /\ replyLog' = [replyLog EXCEPT ![h.id] =
                          [res |-> s.res, val |-> r, via |-> h.kind,
                           waiting |-> resp[h.id].st = "recv"]]

\* Request::reply(response)
RequestReply(h, r) ==
    /\ h \in held
    /\ h.kind = "Request"
    /\ Reply(h, r)
    /\ UNCHANGED <<server, srvPc, channels, mainq, resp, calls, deq,
                   recvLog, taken, srvBy, handed>>

\* EmptyRequest::reply(response)
EmptyRequestReply(h, r) ==
    /\ h \in held
    /\ h.kind = "EmptyRequest"
    /\ Reply(h, r)
    /\ UNCHANGED <<server, srvPc, channels, mainq, resp, calls, deq,
                   recvLog, taken, srvBy, handed>>

\* Drop of a Request or an EmptyRequest without a reply: its Sender goes.
DropRequest(h) ==
    /\ h \in held
    /\ held' = held \ {h}
    /\ oneshot' = [oneshot EXCEPT ![h.tx] = McDropSender(@)]
    /\ UNCHANGED <<server, srvPc, channels, mainq, resp, calls, deq,
                   replyLog, recvLog, taken, srvBy, handed>>

\* -------------------------------------------------------------- Response
\* The result r of a receive call on Response k, as its caller sees it.
RespDeliver(k, r, op) ==
    recvLog' = [recvLog EXCEPT ![k] =
                   [res |-> r.res, op |-> op,
                    val |-> IF r.res = "Ok" THEN r.val ELSE @.val,
                    n |-> IF r.res = "Ok" THEN @.n + 1 ELSE @.n]]

\* Response::recv(self), the call: the owner blocks in rx.recv().
RespRecvCall(k) ==
    /\ resp[k].st = "held"
    /\ resp' = [resp EXCEPT ![k].st = "recv"]
    /\ UNCHANGED <<server, srvPc, channels, mainq, oneshot, held, calls, deq,
                   replyLog, recvLog, taken, srvBy, handed>>

\* Response::recv(self), the return: self, and so its Receiver, is gone.
RespRecvReturn(k) ==
    /\ resp[k].st = "recv"
    /\ LET r == McRecv(oneshot[resp[k].rx])
       IN /\ r.res # "Block"
          /\ RespDeliver(k, r, "recv")
          /\ oneshot' = [oneshot EXCEPT ![resp[k].rx] = McDropReceiver(r.ch)]
    /\ resp' = [resp EXCEPT ![k].st = "done"]
    /\ UNCHANGED <<server, srvPc, channels, mainq, held, calls, deq,
                   replyLog, taken, srvBy, handed>>

\* (mutant) try_recv takes self: the Response, and so its Receiver, is gone.
RespTryRecvConsuming(k) ==
    /\ resp[k].st = "held"
    /\ LET r == McTryRecv(oneshot[resp[k].rx])
       IN /\ IF r.res = "Ok" THEN RespDeliver(k, r, "try_recv") ELSE recvLog' = recvLog
          /\ oneshot' = [oneshot EXCEPT ![resp[k].rx] = McDropReceiver(r.ch)]
    /\ resp' = [resp EXCEPT ![k].st = "dropped"]
    /\ UNCHANGED <<server, srvPc, channels, mainq, held, calls, deq, replyLog, taken, srvBy, handed>>

\* Response::try_recv(&self)
RespTryRecv(k) ==
    /\ resp[k].st = "held"
    /\ LET r == McTryRecv(oneshot[resp[k].rx])
       IN /\ IF r.res = "Ok" THEN RespDeliver(k, r, "try_recv") ELSE recvLog' = recvLog
          /\ oneshot' = [oneshot EXCEPT ![resp[k].rx] = r.ch]
    /\ UNCHANGED <<server, srvPc, channels, mainq, held, resp, calls, deq, replyLog, taken, srvBy, handed>>

\* Response::recv_timeout(&self, timeout), at the moment it returns.
RespRecvTimeout(k) ==
    /\ resp[k].st = "held"
    /\ LET r == McRecvTimeout(oneshot[resp[k].rx])
       IN /\ IF r.res = "Ok" THEN RespDeliver(k, r, "recv_timeout") ELSE recvLog' = recvLog
          /\ oneshot' = [oneshot EXCEPT ![resp[k].rx] = r.ch]
    /\ UNCHANGED <<server, srvPc, channels, mainq, held, resp, calls, deq, replyLog, taken, srvBy, handed>>

\* Drop of a Response that is not inside recv: its Receiver goes.
DropResponse(k) ==
    /\ resp[k].st = "held"
    /\ resp' = [resp EXCEPT ![k].st = "dropped"]
    /\ oneshot' = [oneshot EXCEPT ![resp[k].rx] = McDropReceiver(@)]
    /\ UNCHANGED <<server, srvPc, channels, mainq, held, calls, deq,
                   replyLog, recvLog, taken, srvBy, handed>>

\* ------------------------------------------------------------------ Next
Next ==
    \/ Pop
    \/ \E c \in ChannelIds : CloneChannel(c)
    \/ \E c \in ChannelIds : DropChannel(c)
    \/ DropServer
    \/ SrvRecvCall(Owner)
    \/ SrvRecvReturn
    \/ SrvTryRecv(Owner)
    \/ SrvRecvTimeout(Owner)
    \/ \E c \in ChannelIds, p \in Payloads : Req(c, p)
    \/ \E h \in held : RequestTake(h)
    \/ \E h \in held, r \in Replies : RequestReply(h, r)
    \/ \E h \in held, r \in Replies : EmptyRequestReply(h, r)
    \/ \E h \in held : DropRequest(h)
    \/ \E k \in ReqIds : RespRecvCall(k)
    \/ \E k \in ReqIds : RespRecvReturn(k)
    \/ \E k \in ReqIds : RespTryRecv(k)
    \/ \E k \in ReqIds : RespRecvTimeout(k)
    \/ \E k \in ReqIds : DropResponse(k)

Spec == Init /\ [][Next]_vars

\* A thread blocked in recv is woken once a message or the disconnect is there.
FairSpec ==
    /\ Spec
    /\ WF_vars(SrvRecvReturn)
    /\ \A k \in ReqIds : WF_vars(RespRecvReturn(k))

\* ------------------------------------------- producers and one consumer
\* N producer threads, one Channel each, submit M requests each and then call
\* recv on each Response in turn; one consumer thread owns the Server and
\* loops recv -> reply(F(payload)).  N is the number of Channels, fixed by
\* ScenInit, and the N * M requests are all the calls MaxReqs allows.
ScenN == Len(channels)
ScenM == MaxReqs \div ScenN

\* The payload of the j-th request of producer c, and back.
ScenPayload(c, j) == (c - 1) * ScenM + j
ScenOwner(k) == ((calls[k].payload - 1) \div ScenM) + 1
ScenCallsOf(c) == {k \in DOMAIN calls : ScenOwner(k) = c}

\* The consumer's deterministic transform of a payload.
F(p) == (p % MaxReply) + 1

\* The Server and one Channel per producer exist; nothing was sent.
ScenInit ==
    /\ server = "alive"
    /\ srvPc = "idle"
    /\ srvBy = 0
    /\ \E n \in ChannelIds : /\ channels = [c \in 1..n |-> "alive"]
                             /\ mainq = [McChannel EXCEPT !.senders = 1 + n]
    /\ oneshot = <<>>
    /\ held = {}
    /\ resp = [k \in ReqIds |-> [st |-> "none", rx |-> 0]]
    /\ calls = <<>>
    /\ deq = <<>>
    /\ replyLog = [k \in ReqIds |->
                      [res |-> "none", val |-> NoVal, via |-> "none", waiting |-> FALSE]]
    /\ recvLog = [k \in ReqIds |-> [res |-> "none", op |-> "none", val |-> NoVal, n |-> 0]]
    /\ taken = [k \in ReqIds |-> NoVal]
    /\ handed = [k \in ReqIds |-> 0]

\* Producer c submits its next request.
ScenReq(c) ==
    /\ Cardinality(ScenCallsOf(c)) < ScenM
    /\ Req(c, ScenPayload(c, Cardinality(ScenCallsOf(c)) + 1))

\* Producer c, all its requests submitted and not inside a recv, calls recv
\* on its oldest Response.
ScenRecvCall(c) ==
    /\ c \in DOMAIN channels
    /\ Cardinality(ScenCallsOf(c)) = ScenM
    /\ \A k \in ScenCallsOf(c) : resp[k].st # "recv"
    /\ \E k \in ScenCallsOf(c) :
          /\ \A j \in ScenCallsOf(c) : j < k => resp[j].st = "done"
          /\ RespRecvCall(k)

\* Producer c's recv returns.
ScenRecvReturn(c) ==
    /\ c \in DOMAIN channels
    /\ \E k \in ScenCallsOf(c) : RespRecvReturn(k)

ScenProducer(c) == ScenReq(c) \/ ScenRecvCall(c) \/ ScenRecvReturn(c)

\* The consumer, holding no Request, calls Server::recv.
ScenSrvRecvCall == held = {} /\ SrvRecvCall(Owner)

\* The consumer replies F(payload) to the Request it received.
ScenReply == \E h \in held : RequestReply(h, F(Get(h)))

ScenConsumer == ScenSrvRecvCall \/ SrvRecvReturn \/ ScenReply

ScenNext ==
    \/ \E c \in ChannelIds : ScenReq(c)
    \/ \E c \in ChannelIds : ScenRecvCall(c)
    \/ \E c \in ChannelIds : ScenRecvReturn(c)
    \/ ScenSrvRecvCall
    \/ SrvRecvReturn
    \/ ScenReply

\* Every thread that can take a step eventually does.
ScenSpec ==
    /\ ScenInit
    /\ [][ScenNext]_vars
    /\ \A c \in ChannelIds : WF_vars(ScenProducer(c))
    /\ WF_vars(ScenConsumer)

\* ------------------------------------------------ a pool of consumers
\* The Server is shared by the consumer threads 1..MaxConsumers, each of
\* which may call any receive operation whenever no other call is inside;
\* producers submit through their Channels; consumers reply to or drop what
\* they received, and the Server may go away with Requests still queued.
PoolNext ==
    \/ \E c \in ChannelIds, p \in Payloads : Req(c, p)
    \/ \E w \in Consumers : SrvRecvCall(w)
    \/ SrvRecvReturn
    \/ \E w \in Consumers : SrvTryRecv(w)
    \/ \E w \in Consumers : SrvRecvTimeout(w)
    \/ \E h \in held, r \in Replies : RequestReply(h, r)
    \/ \E h \in held : DropRequest(h)
    \/ DropServer

PoolSpec == ScenInit /\ [][PoolNext]_vars

\* ---------------------------------------------------------------- claims
\* The reply capability of call k is still somewhere: in the queue, or held
\* by a handler as a Request or an EmptyRequest.
Queued(k) == \E i \in DOMAIN mainq.buf : mainq.buf[i].id = k
Held(k) == \E h \in held : h.id = k
Made(k) == k \in DOMAIN calls /\ calls[k].ok
Dequeued(k) == \E i \in DOMAIN deq : deq[i].id = k

\* C1: no cross-talk.  A value obtained from the Response of call k (by recv,
\* try_recv or recv_timeout) is the value passed to the successful reply on
\* the Request or EmptyRequest of the same call k.
C1_NoCrossTalk ==
    \A k \in ReqIds :
        recvLog[k].n > 0 =>
            /\ replyLog[k].res = "Ok"
            /\ recvLog[k].val = replyLog[k].val

\* Call 2 was answered and its caller has the value while the caller of call 1
\* is still blocked in recv and the handler still holds the Request of call 1.
C1_Witness ==
    /\ MaxReqs >= 2
    /\ recvLog[2].n = 1
    /\ recvLog[2].val = replyLog[2].val
    /\ resp[1].st = "recv"
    /\ Held(1)
    /\ replyLog[1].res = "none"

\* C2: every Request handed out by a receive call of the Server carries the
\* payload given to the req call that created it, and get() on a Request
\* (received, or handed back by a failed req) is that payload.
C2_PayloadIntact ==
    /\ \A i \in DOMAIN deq : deq[i].payload = calls[deq[i].id].payload
    /\ \A h \in held : h.kind = "Request" => Get(h) = calls[h.id].payload
    /\ \A i \in DOMAIN mainq.buf : Get(mainq.buf[i]) = calls[mainq.buf[i].id].payload

\* Two Requests with different payloads were received, each with its own.
C2_Witness ==
    /\ Len(deq) = 2
    /\ deq[1].payload # deq[2].payload
    /\ \E h \in held : h.id = deq[2].id /\ Get(h) = calls[2].payload

\* C3: after a successful reply(r), recv on the paired Response returns
\* exactly r, whether reply was called on the Request or on the EmptyRequest
\* that take() made of it, and whether the caller was already inside recv or
\* not; take() returns the payload unchanged and keeps the reply path.
C3_ReplyThenRecv ==
    \A k \in ReqIds :
        /\ (resp[k].st = "done" /\ replyLog[k].res = "Ok" /\ recvLog[k].n = 1
                /\ recvLog[k].res = "Ok")
              => recvLog[k].val = replyLog[k].val
        /\ (resp[k].st = "done" /\ replyLog[k].res = "Ok")
              => recvLog[k].n = 1
        /\ taken[k] # NoVal => taken[k] = calls[k].payload
        /\ \A h \in held :
              (h.id = k /\ h.kind = "EmptyRequest" /\ Made(k)) => h.tx = resp[k].rx

\* The caller was blocked in recv when the handler replied through the
\* EmptyRequest, and recv has returned that value.
C3_Witness ==
    \E k \in ReqIds :
        /\ replyLog[k].via = "EmptyRequest"
        /\ replyLog[k].waiting
        /\ replyLog[k].val = MaxReply
        /\ resp[k].st = "done"
        /\ recvLog[k].res = "Ok"
        /\ recvLog[k].val = MaxReply
        /\ taken[k] = MaxPayload

\* C4: a req(p) made after the Server was dropped fails; the error hands back
\* a Request whose payload is p; the call enqueues nothing and makes no
\* Response.
C4_ReqAfterServerDrop ==
    [][(Len(calls') = Len(calls) + 1 /\ server = "dropped") =>
          LET k == Len(calls')
          IN /\ ~calls'[k].ok
             /\ mainq'.buf = mainq.buf
             /\ mainq'.buf = <<>>
             /\ resp'[k].st = "none"
             /\ \E h \in held' \ held :
                   /\ h.id = k
                   /\ h.kind = "Request"
                   /\ Get(h) = calls'[k].payload
      ]_vars

\* A req on a surviving Channel failed after the Server was dropped, and the
\* caller holds the Request with its payload.
C4_Witness ==
    /\ server = "dropped"
    /\ \E k \in DOMAIN calls :
          /\ ~calls[k].ok
          /\ calls[k].payload = MaxPayload
          /\ \E h \in held : h.id = k /\ Get(h) = MaxPayload

\* The Response of call k is alive: made, and neither dropped nor consumed.
RespAlive(k) == resp[k].st \in {"held", "recv"}

\* C5: reply (on a Request or an EmptyRequest) returns Ok if the paired
\* Response is alive when it is called, and the send failure if it is gone.
C5_ReplyResult ==
    [][\A k \in ReqIds :
          replyLog'[k] # replyLog[k] =>
              /\ RespAlive(k) => replyLog'[k].res = "Ok"
              /\ ~RespAlive(k) => replyLog'[k].res = "SendError"
      ]_vars

\* Both kinds of reply have failed on a dropped Response.
C5_Witness ==
    /\ MaxReqs >= 2
    /\ \E j, k \in ReqIds :
          /\ replyLog[j].res = "SendError" /\ replyLog[j].via = "Request"
          /\ replyLog[k].res = "SendError" /\ replyLog[k].via = "EmptyRequest"
          /\ resp[j].st = "dropped"
          /\ resp[k].st = "dropped"

\* The reply capability of call k was destroyed without a reply: the call
\* succeeded, no reply was made, and the Request is neither queued nor held.
CapGone(k) == Made(k) /\ replyLog[k].res = "none" /\ ~Queued(k) /\ ~Held(k)

\* C6: if the reply capability of a request is destroyed without a reply (the
\* handler dropped the Request or EmptyRequest, or the Request was in the
\* queue when the Server was dropped), a recv on the paired Response returns
\* the disconnect error instead of blocking forever.
C6_DroppedCapabilityDisconnects ==
    \A k \in ReqIds :
        (CapGone(k) /\ resp[k].st = "recv")
            ~> (resp[k].st = "done" /\ recvLog[k].res = "Disconnected")

\* A recv returned the disconnect error for a Request that was never received:
\* it was still queued when the Server was dropped.
C6_Witness ==
    \E k \in ReqIds :
        /\ Made(k)
        /\ server = "dropped"
        /\ ~Dequeued(k)
        /\ resp[k].st = "done"
        /\ recvLog[k].res = "Disconnected"
        /\ recvLog[k].n = 0

\* Every Channel handle made so far has been dropped.
NoChannelAlive == \A c \in DOMAIN channels : channels[c] = "dropped"

\* C7 (as claimed): once every Channel is dropped, a Server::recv with nothing
\* queued resolves with the disconnect error.
C7_RecvDisconnectsWithoutChannels ==
    (srvPc = "recv" /\ Len(channels) > 0 /\ NoChannelAlive /\ mainq.buf = <<>>)
        => McRecv(mainq).res = "Disconnected"

\* C8: the Server's receive calls hand out the Requests in the order their req
\* calls enqueued them: when a Request is received, every Request enqueued
\* before it has been received before it.
C8_GlobalFifo ==
    \A n \in DOMAIN deq :
        \A i \in 1..(deq[n].id - 1) :
            calls[i].ok => \E m \in 1..(n - 1) : deq[m].id = i

\* Two Requests were queued together; the older was received and the younger
\* is still queued.
C8_Witness ==
    /\ Len(deq) = 1
    /\ deq[1].id = 1
    /\ Queued(2)
    /\ Len(channels) = 2

\* C9: Response::recv returns only when the reply capability is no longer
\* held un-replied (queued, or held by a handler); it returns a value only
\* after a successful reply on that capability; and a recv whose reply has
\* been made returns.
C9_RecvWaitsForReply ==
    /\ [][\A k \in ReqIds :
             (resp[k].st = "recv" /\ resp'[k].st = "done") =>
                 /\ ~Queued(k)
                 /\ ~Held(k)
                 /\ recvLog'[k].res = "Ok" => replyLog[k].res = "Ok"
         ]_vars
    /\ \A k \in ReqIds :
          (resp[k].st = "recv" /\ replyLog[k].res = "Ok") ~> (resp[k].st = "done")

\* A caller that was blocked in recv while the handler held the Request got
\* the value replied afterwards.
C9_Witness ==
    \E k \in ReqIds :
        /\ replyLog[k].res = "Ok"
        /\ replyLog[k].waiting
        /\ resp[k].st = "done"
        /\ recvLog[k].res = "Ok"
        /\ recvLog[k].val = replyLog[k].val

\* C10: while the Server exists try_recv reports Empty exactly when no
\* Request is queued, and otherwise returns the oldest queued Request; a
\* Request is handed out by at most one receive call, and one handed out is
\* no longer queued.
C10_TryRecv ==
    /\ server = "alive" =>
          /\ McTryRecv(mainq).res = "Empty" <=> mainq.buf = <<>>
          /\ mainq.buf # <<>> =>
                /\ McTryRecv(mainq).res = "Ok"
                /\ McTryRecv(mainq).val = Head(mainq.buf)
                /\ McTryRecv(mainq).ch.buf = Tail(mainq.buf)
    /\ calls = <<>> => mainq.buf = <<>>
    /\ \A i, j \in DOMAIN deq : deq[i].id = deq[j].id => i = j
    /\ \A k \in ReqIds : Dequeued(k) => ~Queued(k)
    /\ \A i, j \in DOMAIN mainq.buf : mainq.buf[i].id = mainq.buf[j].id => i = j

\* One Request was handed out, the queue is empty again, and the Server is
\* free to call try_recv, which reports Empty.
C10_Witness ==
    /\ server = "alive"
    /\ srvPc = "idle"
    /\ Len(deq) = 1
    /\ Len(calls) = 1
    /\ calls[1].ok
    /\ McTryRecv(mainq).res = "Empty"

\* The Request of call k has not been answered and its reply capability is
\* alive: the Request is queued, or held as a Request or an EmptyRequest.
Unanswered(k) == Made(k) /\ replyLog[k].res = "none" /\ (Queued(k) \/ Held(k))

\* The reply channel of call k, as its Response sees it.
ReplyChan(k) == oneshot[resp[k].rx]

\* C11: Response::try_recv is a poll that does not consume the Response.
\* While the request is unanswered and its reply capability alive it returns
\* Empty and changes nothing, so the Response stays usable and a later reply
\* is delivered; the first poll after a successful reply(r) returns r.
C11_RespTryRecvPoll ==
    /\ [](\A k \in ReqIds :
             /\ (resp[k].st = "held" /\ Unanswered(k)) =>
                    McTryRecv(ReplyChan(k)).res = "Empty"
             /\ (resp[k].st = "held" /\ replyLog[k].res = "Ok" /\ recvLog[k].n = 0) =>
                    /\ McTryRecv(ReplyChan(k)).res = "Ok"
                    /\ McTryRecv(ReplyChan(k)).val = replyLog[k].val)
    /\ [][\A k \in ReqIds :
             /\ (Unanswered(k) /\ RespTryRecv(k)) => UNCHANGED vars
             /\ RespTryRecv(k) => resp'[k].st = "held"
         ]_vars

\* A Response has obtained the reply MaxReply by try_recv and is still held
\* by the requester.
C11_Witness ==
    \E k \in ReqIds :
        /\ resp[k].st = "held"
        /\ recvLog[k].op = "try_recv"
        /\ recvLog[k].res = "Ok"
        /\ recvLog[k].n = 1
        /\ recvLog[k].val = replyLog[k].val
        /\ replyLog[k].val = MaxReply

\* A reply value was sent for call k and its Response has not obtained it.
ValueWaiting(k) == replyLog[k].res = "Ok" /\ recvLog[k].n = 0

\* C12: recv_timeout tells a timeout from a disconnect.  On a Response it is
\* Timeout only while no value waits and the reply capability is alive, and
\* Disconnected only while no value waits and the capability is gone; on the
\* Server it is Timeout only with an empty queue and a live Sender.  A timeout
\* changes nothing, and a value sent later is returned by the same
\* Response / Server.
C12_RecvTimeout ==
    /\ [](\A k \in ReqIds : resp[k].st = "held" =>
             LET r == McRecvTimeout(ReplyChan(k))
             IN /\ r.res \in {"Ok", "Timeout", "Disconnected"}
                /\ r.res = "Timeout" =>
                       ~ValueWaiting(k) /\ (Queued(k) \/ Held(k)) /\ r.ch = ReplyChan(k)
                /\ r.res = "Disconnected" =>
                       ~ValueWaiting(k) /\ ~Queued(k) /\ ~Held(k)
                /\ ValueWaiting(k) => r.res = "Ok" /\ r.val = replyLog[k].val)
    /\ [](server = "alive" =>
             LET r == McRecvTimeout(mainq)
             IN /\ r.res \in {"Ok", "Timeout", "Disconnected"}
                /\ r.res = "Timeout" =>
                       mainq.buf = <<>> /\ mainq.senders > 0 /\ r.ch = mainq
                /\ r.res = "Disconnected" => mainq.buf = <<>> /\ mainq.senders = 0
                /\ mainq.buf # <<>> => r.res = "Ok" /\ r.val = Head(mainq.buf))
    /\ [][/\ \A k \in ReqIds :
                (RespRecvTimeout(k) /\ McRecvTimeout(ReplyChan(k)).res # "Ok")
                    => UNCHANGED vars
          /\ (SrvRecvTimeout(Owner) /\ McRecvTimeout(mainq).res # "Ok") => UNCHANGED vars
         ]_vars

\* One Response got its reply by recv_timeout and is still held, while a
\* second held Response, whose Request was dropped unanswered, is disconnected
\* and the Server, its queue empty, would time out.
C12_Witness ==
    \E k, j \in ReqIds :
        /\ resp[k].st = "held"
        /\ recvLog[k].op = "recv_timeout"
        /\ recvLog[k].res = "Ok"
        /\ recvLog[k].val = replyLog[k].val
        /\ resp[j].st = "held"
        /\ CapGone(j)
        /\ McRecvTimeout(ReplyChan(j)).res = "Disconnected"
        /\ server = "alive"
        /\ Len(deq) = 2
        /\ McRecvTimeout(mainq).res = "Timeout"

\* The number of reply capabilities of call k in existence: its Request in
\* the queue, and the Requests and EmptyRequests of it that handlers hold.
Caps(k) ==
    Cardinality({h \in held : h.id = k})
        + Cardinality({i \in DOMAIN mainq.buf : mainq.buf[i].id = k})

\* C13: the reply path is one-shot.  A request never has more than one reply
\* capability (take moves it) and none once reply was called, so reply is
\* called at most once per request and a reply channel never holds more than
\* one value; the receive operations of one Response return a value at most
\* once, and a poll after the successful one is Disconnected.
C13_OneShot ==
    /\ [](\A k \in ReqIds :
             /\ Caps(k) <= 1
             /\ replyLog[k].res # "none" => Caps(k) = 0
             /\ recvLog[k].n <= 1
             /\ (resp[k].st = "held" /\ recvLog[k].n = 1) =>
                    /\ McTryRecv(ReplyChan(k)).res = "Disconnected"
                    /\ McRecvTimeout(ReplyChan(k)).res = "Disconnected")
    /\ [](\A c \in DOMAIN oneshot :
             Len(oneshot[c].buf) <= 1 /\ oneshot[c].senders \in {0, 1})
    /\ [][\A k \in ReqIds :
             /\ replyLog'[k] # replyLog[k] => replyLog[k].res = "none"
             /\ recvLog'[k].n >= recvLog[k].n
         ]_vars

\* The handler took the payload and replied through the EmptyRequest; the
\* Response got the value by a poll and is still held, with nothing more to
\* come.
C13_Witness ==
    \E k \in ReqIds :
        /\ replyLog[k].res = "Ok"
        /\ replyLog[k].via = "EmptyRequest"
        /\ resp[k].st = "held"
        /\ recvLog[k].n = 1
        /\ recvLog[k].op \in {"try_recv", "recv_timeout"}
        /\ McTryRecv(ReplyChan(k)).res = "Disconnected"

\* How often the Request of call k is in the queue / was handed to a receive
\* call of the Server.
QueuedCount(k) == Cardinality({i \in DOMAIN mainq.buf : mainq.buf[i].id = k})
DequeuedCount(k) == Cardinality({i \in DOMAIN deq : deq[i].id = k})

\* C14 as stated: every payload accepted by a successful req is either still
\* in the queue or was handed to exactly one receive call of the Server.
C14_QueuedOrDequeued ==
    \A k \in ReqIds : Made(k) => QueuedCount(k) + DequeuedCount(k) = 1

\* C14, amended: no accepted payload is duplicated, and while the Server
\* exists none is lost: it is in the queue once or was handed to exactly one
\* receive call, with the payload of its req.  A Request leaves the queue only
\* by being handed to a receive call, or when the Server is dropped, which
\* discards every Request still queued.
C14_NoDuplicateNoLossWhileServer ==
    /\ [](\A k \in ReqIds : Made(k) =>
             /\ QueuedCount(k) + DequeuedCount(k) <= 1
             /\ server = "alive" => QueuedCount(k) + DequeuedCount(k) = 1)
    /\ [](\A i \in DOMAIN deq : deq[i].payload = calls[deq[i].id].payload)
    /\ [](server = "dropped" => mainq.buf = <<>>)
    /\ [][\A k \in ReqIds :
             /\ (Queued(k) /\ ~Queued(k)') =>
                    \/ Dequeued(k)' /\ \E h \in held' : h.id = k
                    \/ server = "alive" /\ server' = "dropped"
             /\ Dequeued(k) => Dequeued(k)'
         ]_vars

\* Two accepted payloads: one was handed to a receive call, the other was
\* still queued when the Server was dropped and is gone.
C14_Witness ==
    \E k, j \in ReqIds :
        /\ Made(k) /\ Dequeued(k)
        /\ Made(j) /\ ~Dequeued(j) /\ ~Queued(j)
        /\ server = "dropped"

\* The recv calls of producer c that returned a value.
ScenRepliesOf(c) == {k \in ScenCallsOf(c) : resp[k].st = "done" /\ recvLog[k].n = 1}

\* C15: N producers submit M requests each and then recv on each Response,
\* one consumer loops recv -> reply(F(payload)).  Under fair scheduling every
\* one of the N * M recv calls returns, each with F of its own payload, and
\* every producer ends with exactly M replies; no recv ever returns anything
\* else, or twice.
C15_ProducersConsumer ==
    /\ [](\A k \in DOMAIN calls :
             /\ recvLog[k].n <= 1
             /\ resp[k].st = "done" =>
                    /\ recvLog[k].res = "Ok"
                    /\ recvLog[k].n = 1
                    /\ recvLog[k].val = F(calls[k].payload))
    /\ [](\A c \in DOMAIN channels : Cardinality(ScenRepliesOf(c)) <= ScenM)
    /\ <>[](/\ Len(calls) = ScenN * ScenM
            /\ \A k \in DOMAIN calls : resp[k].st = "done"
            /\ \A c \in DOMAIN channels : Cardinality(ScenRepliesOf(c)) = ScenM)

\* Two producers: the second one's request was queued first and answered
\* first, and each got F of its own payload.
C15_Witness ==
    /\ ScenN = 2
    /\ Len(calls) = 2
    /\ ScenOwner(1) = 2
    /\ \A k \in {1, 2} : /\ resp[k].st = "done"
                         /\ recvLog[k].val = F(calls[k].payload)
    /\ recvLog[1].val # recvLog[2].val

\* A poll (try_recv, recv_timeout) of the held Response k would now return
\* the disconnect error.
PollDisconnected(k) ==
    /\ resp[k].st = "held"
    /\ McTryRecv(ReplyChan(k)).res = "Disconnected"
    /\ McRecvTimeout(ReplyChan(k)).res = "Disconnected"

\* C16 as stated: a poll of a Response returns the disconnect error only if
\* no reply value was ever sent on its reply path.
C16_DisconnectMeansNeverSent ==
    \A k \in ReqIds :
        (resp[k].st = "held" /\ McTryRecv(ReplyChan(k)).res = "Disconnected")
            => replyLog[k].res # "Ok"

\* C16, amended: a poll of a Response returns the disconnect error only when
\* no value waits and the reply capability is gone: it was dropped without a
\* reply, or its one value was already returned by an earlier poll of the same
\* Response.  The disconnect is permanent: every later call on that Response
\* (try_recv, recv_timeout, recv) also reports it.
C16_DisconnectPermanent ==
    /\ [](\A k \in ReqIds :
             /\ (resp[k].st = "held" /\ McTryRecv(ReplyChan(k)).res = "Disconnected")
                    => PollDisconnected(k)
             /\ PollDisconnected(k) =>
                    /\ ~ValueWaiting(k)
                    /\ CapGone(k) \/ (replyLog[k].res = "Ok" /\ recvLog[k].n = 1))
    /\ [][\A k \in ReqIds : PollDisconnected(k) =>
             /\ resp'[k].st = "held" => PollDisconnected(k)'
             /\ resp'[k].st = "recv" => McRecv(ReplyChan(k))'.res = "Disconnected"
             /\ recvLog'[k].n = recvLog[k].n
         ]_vars

\* One Response got its reply by try_recv and is disconnected since, although
\* a value was sent; another is disconnected because its Request was dropped
\* unanswered; after that the Server went away.
C16_Witness ==
    \E k, j \in ReqIds :
        /\ PollDisconnected(k)
        /\ replyLog[k].res = "Ok"
        /\ recvLog[k].op = "try_recv"
        /\ recvLog[k].n = 1
        /\ PollDisconnected(j)
        /\ CapGone(j)
        /\ server = "dropped"

\* C17: several consumers on one Server.  With the consumers' receive calls
\* (recv, try_recv, recv_timeout) interleaved in any way with each other and
\* with the producers, every Request that leaves the queue is handed to
\* exactly one consumer and stays with that one; requests are handed out in
\* queue order, none passed over, and while the Server exists every accepted
\* request is either queued or handed out.
C17_ExactlyOneConsumer ==
    /\ [](\A k \in ReqIds :
             /\ handed[k] \in Consumers \cup {0}
             /\ handed[k] # 0 <=> Dequeued(k)
             /\ DequeuedCount(k) <= 1
             /\ Cardinality({h \in held : h.id = k}) <= 1
             /\ Dequeued(k) => \A j \in 1..(k - 1) : Made(j) => Dequeued(j)
             /\ (Made(k) /\ server = "alive") => Queued(k) \/ Dequeued(k))
    /\ [][\A k \in ReqIds : handed[k] # 0 => handed'[k] = handed[k]]_vars

\* The first request went to consumer 2 and the second to consumer 1, and
\* consumer 2 is inside recv again, on the empty queue.
C17_Witness ==
    /\ handed[1] = 2
    /\ handed[2] = 1
    /\ srvPc = "recv"
    /\ srvBy = 2
    /\ mainq.buf = <<>>

\* The Channel handles that are alive.
AliveChannels == {c \in DOMAIN channels : channels[c] = "alive"}

\* C18: as long as the Server exists its queue has the Server's own Sender
\* besides one per live Channel, so none of recv, try_recv, recv_timeout
\* reports the disconnect, with any number of Channels alive, zero included;
\* on an empty queue try_recv is Empty, recv_timeout is Timeout and recv stays
\* blocked.  A recv that returns, returns a Request.
C18_NoDisconnectWhileServer ==
    /\ [](server = "alive" =>
             /\ mainq.rxAlive
             /\ mainq.senders = 1 + Cardinality(AliveChannels)
             /\ McRecv(mainq).res # "Disconnected"
             /\ McTryRecv(mainq).res # "Disconnected"
             /\ McRecvTimeout(mainq).res # "Disconnected"
             /\ mainq.buf = <<>> =>
                    /\ McTryRecv(mainq).res = "Empty"
                    /\ McRecvTimeout(mainq).res = "Timeout"
                    /\ McRecv(mainq).res = "Block"
                    /\ ~ENABLED SrvRecvReturn)
    /\ [](srvPc = "recv" => server = "alive")
    /\ [][SrvRecvReturn => Len(deq') = Len(deq) + 1]_vars

\* Requests were served, then every Channel was dropped: the Server is still
\* there, its queue empty, and its owner is blocked inside recv.
C18_Witness ==
    /\ server = "alive"
    /\ Len(channels) = MaxChannels
    /\ AliveChannels = {}
    /\ Len(deq) > 0
    /\ mainq.buf = <<>>
    /\ srvPc = "recv"
    /\ McTryRecv(mainq).res = "Empty"

\* The reply channel of the Request or EmptyRequest h a handler holds.
ReplyChanOf(h) == oneshot[h.tx]

\* C19: the reply path does not hang on the handles of the shared queue.
\* Dropping the Server or a Channel leaves every dequeued Request, every
\* Response and every reply channel of a held Request as they are; whatever
\* became of the Server and the Channels, a reply on a held Request or
\* EmptyRequest succeeds while the paired Response is alive, and the value
\* sent is what the Response's recv, try_recv or recv_timeout returns.
\* Dropping a Channel changes nothing in the queue or in any reply channel.
C19_ReplyPathIndependent ==
    /\ [](\A h \in held : (Made(h.id) /\ RespAlive(h.id)) =>
             /\ ReplyChanOf(h) = McChannel
             /\ \A r \in Replies : McSend(ReplyChanOf(h), r).res = "Ok")
    /\ [](\A k \in ReqIds : (ValueWaiting(k) /\ RespAlive(k)) =>
             /\ McRecv(ReplyChan(k)).res = "Ok"
             /\ McRecv(ReplyChan(k)).val = replyLog[k].val)
    /\ [][(server' # server \/ channels' # channels) =>
             /\ held' = held
             /\ resp' = resp
             /\ replyLog' = replyLog
             /\ \A h \in held : ReplyChanOf(h)' = ReplyChanOf(h)
         ]_vars
    /\ [][\A c \in ChannelIds : DropChannel(c) =>
             /\ mainq'.buf = mainq.buf
             /\ oneshot' = oneshot
             /\ \A k \in ReqIds : Queued(k) => Queued(k)'
         ]_vars

\* The Server and every Channel are gone.  One request was answered and its
\* caller got the value by recv; for the other the handler still holds the
\* EmptyRequest and the caller is blocked in recv.
C19_Witness ==
    /\ server = "dropped"
    /\ Len(channels) > 0
    /\ NoChannelAlive
    /\ \E k, j \in ReqIds :
          /\ replyLog[k].res = "Ok"
          /\ recvLog[k].res = "Ok"
          /\ recvLog[k].op = "recv"
          /\ \E h \in held : h.id = j /\ h.kind = "EmptyRequest"
          /\ Made(j)
          /\ resp[j].st = "recv"

\* The req call k failed: the Server was gone and the Request came back.
Failed(k) == k \in DOMAIN calls /\ ~calls[k].ok

\* C20: a failed req makes no Response and drops the Receiver of the reply
\* channel it had made.  The Request handed back keeps its payload for get
\* and take, but reply on it, or on the EmptyRequest taken from it, fails
\* with the send error.
C20_FailedReq ==
    /\ [](\A k \in ReqIds : Failed(k) =>
             /\ resp[k].st = "none"
             /\ ~Queued(k) /\ ~Dequeued(k)
             /\ replyLog[k].res \in {"none", "SendError"}
             /\ recvLog[k].n = 0
             /\ taken[k] \in {NoVal, calls[k].payload}
             /\ \A h \in held : h.id = k =>
                    /\ ~ReplyChanOf(h).rxAlive
                    /\ \A r \in Replies : McSend(ReplyChanOf(h), r).res = "SendError"
                    /\ h.kind = "Request" =>
                           /\ Get(h) = calls[k].payload
                           /\ Take(h).payload = calls[k].payload
                           /\ Take(h).empty.tx = h.tx)
    /\ [][\A k \in ReqIds : (Failed(k) /\ replyLog'[k] # replyLog[k]) =>
             replyLog'[k].res = "SendError"
         ]_vars

\* A req failed after the Server was dropped; take on the Request handed back
\* gave the payload, and reply on the EmptyRequest failed.
C20_Witness ==
    \E k \in ReqIds :
        /\ Failed(k)
        /\ calls[k].payload = MaxPayload
        /\ taken[k] = MaxPayload
        /\ replyLog[k].res = "SendError"
        /\ replyLog[k].via = "EmptyRequest"

====
